---- MODULE Spec2Model ----
(***************************************************************************)
(* Model of the Rust backend of xgen (genRust.go) and of the parser        *)
(* handlers of the minInclusive / maxInclusive facets.                     *)
(*                                                                         *)
(* A Go string is a sequence of one-character strings, so that splitting,  *)
(* case conversion, separator stripping and decimal formatting are         *)
(* computed character by character.  The accumulated output text gen.Field *)
(* is the sequence of the structural definitions appended to it; a         *)
(* definition is the record of what genRustStructCode / genRustEnumCode    *)
(* print (kind, name, field content, validation statements, transparency). *)
(* Documentation comments (v.Doc, genFieldComment) are left out.           *)
(***************************************************************************)
EXTENDS Integers, Sequences, FiniteSets, TLC

VARIABLES
    ProtoTree,        \* gen.ProtoTree: the ordered top-level declarations
    StructAST,        \* gen.StructAST: declaration name -> emitted field text
    Field,            \* gen.Field: the accumulated output
    fieldNameCount,   \* the package-level naming counter
    pc,               \* where GenRust stands: "idle" or "loop"
    idx,              \* position of the range loop of GenRust in ProtoTree
    outputs,          \* what each completed GenRust call wrote (or its error)
    structNameCalls,  \* log of the genRustStructName(_, true) calls of this run
    fcArgs,           \* arguments of a genRustFieldCode call
    fcRet,            \* its two results, or NotCalled
    optSimpleType,    \* opt.SimpleType, the stack of open simple types
    optElement,       \* opt.Element, the stack of open elements
    optCurrentEle,    \* opt.CurrentEle
    event,            \* the markup event handled last
    err               \* the error that handler returned

genVars == <<ProtoTree, StructAST, Field, fieldNameCount, pc, idx, outputs, structNameCalls>>
fcVars == <<fcArgs, fcRet>>
optVars == <<optSimpleType, optElement, optCurrentEle, event, err>>
vars == <<genVars, fcVars, optVars>>

----------------------------------------------------------------------------
(* Characters and the Go string functions the backend calls *)

\* the characters of a string literal
Chars(s) == [i \in 1..Len(s) |-> SubSeq(s, i, i)]

Lower == Chars("abcdefghijklmnopqrstuvwxyz")
Upper == Chars("ABCDEFGHIJKLMNOPQRSTUVWXYZ")
Digits == Chars("0123456789")

\* the characters of the model in byte order
ByteOrder == <<"\"", "$">> \o Chars("-.") \o Digits \o Chars(":<>") \o Upper
             \o <<"\\", "_">> \o Lower

IsLower(c) == \E i \in DOMAIN Lower : Lower[i] = c
IsUpper(c) == \E i \in DOMAIN Upper : Upper[i] = c
IsDigit(c) == \E i \in DOMAIN Digits : Digits[i] = c

ToUpperCh(c) == IF IsLower(c) THEN Upper[CHOOSE i \in DOMAIN Lower : Lower[i] = c] ELSE c
ToLowerCh(c) == IF IsUpper(c) THEN Lower[CHOOSE i \in DOMAIN Upper : Upper[i] = c] ELSE c

ToUpper(s) == [i \in 1..Len(s) |-> ToUpperCh(s[i])]

ByteOf(c) == CHOOSE i \in DOMAIN ByteOrder : ByteOrder[i] = c

\* s < t in the byte-wise order of Go strings
StringLess(s, t) ==
    \E n \in 0..Len(s) :
        /\ n <= Len(t)
        /\ \A i \in 1..n : s[i] = t[i]
        /\ \/ n = Len(s) /\ n < Len(t)
           \/ n < Len(s) /\ n < Len(t) /\ ByteOf(s[n + 1]) < ByteOf(t[n + 1])

\* strings.Index of a one-character separator that occurs in s
FirstIndex(s, sep) == CHOOSE i \in 1..Len(s) : s[i] = sep /\ \A j \in 1..(i - 1) : s[j] # sep

RECURSIVE Split(_, _)
Split(s, sep) ==
    IF \A i \in 1..Len(s) : s[i] # sep
    THEN <<s>>
    ELSE <<SubSeq(s, 1, FirstIndex(s, sep) - 1)>>
         \o Split(SubSeq(s, FirstIndex(s, sep) + 1, Len(s)), sep)

CountChar(s, c) == Cardinality({i \in 1..Len(s) : s[i] = c})

RemoveChars(s, cs) == SelectSeq(s, LAMBDA c : c \notin cs)

RECURSIVE Concat(_)
Concat(ss) == IF ss = <<>> THEN <<>> ELSE Head(ss) \o Concat(Tail(ss))

\* fmt's %d of a non-negative integer
RECURSIVE FormatInt(_)
FormatInt(n) ==
    IF n < 10 THEN <<Digits[n + 1]>>
    ELSE FormatInt(n \div 10) \o <<Digits[(n % 10) + 1]>>

\* Go maps: a function on the keys present; a missing key reads as zero
EmptyMap == [k \in {} |-> 0]
MapGet(m, k) == IF k \in DOMAIN m THEN m[k] ELSE 0
MapPut(m, k, v) == [x \in DOMAIN m \cup {k} |-> IF x = k THEN v ELSE m[x]]

MakeFirstUpperCase(s) ==
    IF s = <<>> THEN <<>> ELSE <<ToUpperCh(s[1])>> \o Tail(s)

\* an underscore goes before a capital that follows a lower-case letter or a
\* digit, or that starts a capitalised word; then everything is lower-cased
SnakeCut(s, i) ==
    /\ i > 1
    /\ IsUpper(s[i])
    /\ \/ IsLower(s[i - 1])
       \/ IsDigit(s[i - 1])
       \/ i < Len(s) /\ IsLower(s[i + 1])

RECURSIVE SnakeFrom(_, _)
SnakeFrom(s, i) ==
    IF i > Len(s) THEN <<>>
    ELSE (IF SnakeCut(s, i) THEN <<"_">> ELSE <<>>) \o <<ToLowerCh(s[i])>> \o SnakeFrom(s, i + 1)

ToSnakeCase(s) == SnakeFrom(s, 1)

LastOf(parts) == parts[Len(parts)]

trimNSPrefix(s) == IF CountChar(s, ":") > 0 THEN LastOf(Split(s, ":")) ELSE s

----------------------------------------------------------------------------
(* The static tables of the backend *)

Str_String == Chars("String")
Str_char == Chars("char")
Str_value == Chars("value")
Str_dollar_value == Chars("$") \o Str_value
Str_attr == Chars("_attr")
Str_Code == Chars("Code")
Str_Vec == Chars("Vec<")
Str_Option == Chars("Option<")

rustBuildinType ==
    { Chars(w) : w \in
        { "i8", "i16", "i32", "i64", "i128", "isize",
          "u8", "u16", "u32", "u64", "u128", "usize",
          "f32", "f64", "Vec<char>", "Vec<String>", "Vec<u8>", "bool",
          "char", "String" } }

rustKeywords ==
    { Chars(w) : w \in
        { "as", "break", "const", "continue", "crate", "dyn",
          "else", "enum", "extern", "false", "fn", "for",
          "if", "impl", "in", "let", "loop", "match",
          "mod", "move", "mut", "pub", "ref", "return",
          "Self", "self", "static", "struct", "super", "trait",
          "true", "type", "unsafe", "use", "where", "while",
          "abstract", "async", "await", "become", "box", "do",
          "final", "macro", "override", "priv", "try", "typeof",
          "unsized", "virtual", "yield" } }

isRustBuiltInType(typeName) == typeName \in rustBuildinType

----------------------------------------------------------------------------
(* Names and types *)

UpperEach(parts) == Concat([i \in 1..Len(parts) |-> MakeFirstUpperCase(parts[i])])

\* for _, str := range strings.Split(s, sep) { out += MakeFirstUpperCase(str) }
UpperSegments(s, sep) == UpperEach(Split(s, sep))

\* lines 138-140
KeywordSafe(fieldName) ==
    IF fieldName \in rustKeywords THEN fieldName \o Str_attr ELSE fieldName

genRustFieldName(name) ==
    KeywordSafe(ToSnakeCase(RemoveChars(UpperSegments(UpperSegments(name, ":"), "."), {"-"})))

\* lines 146-154: the identifier before the uniqueness counter is consulted
NormalizeStructName(name) ==
    RemoveChars(UpperSegments(UpperSegments(name, ":"), "."), {"-", "_"})

\* lines 156-159 with every counted name suffixed, the first one too
CountedName_FromOne(structName, n, count) ==
    [structName |-> structName \o FormatInt(n),
     fieldNameCount |-> MapPut(count, structName, n)]

\* lines 156-159: n is the incremented fieldNameCount[structName]
CountedName(structName, n, count) ==
    [structName |-> IF n # 1 THEN structName \o FormatInt(n) ELSE structName,
     fieldNameCount |-> MapPut(count, structName, n)]

UniqueName(structName, unique, count) ==
    IF unique
    THEN CountedName(structName, MapGet(count, structName) + 1, count)
    ELSE [structName |-> structName, fieldNameCount |-> count]

\* genRustStructName(name, unique), reading and writing fieldNameCount = count
genRustStructName(name, unique, count) == UniqueName(NormalizeStructName(name), unique, count)

NonEmptyOr(s, other) == IF s # <<>> THEN s ELSE other

genRustFieldType(name) ==
    IF name \in rustBuildinType THEN name
    ELSE NonEmptyOr(genRustStructName(name, FALSE, EmptyMap).structName, Str_char)

escapeRustString(s) ==
    Concat([i \in 1..Len(s) |->
              IF s[i] = "\\" THEN <<"\\", "\\">>
              ELSE IF s[i] = "\"" THEN <<"\\", "\"">>
              ELSE <<s[i]>>])

genRustFieldRename(name) ==
    IF CountChar(name, ":") > 0 THEN Split(name, ":")[2]
    ELSE IF name = Str_value THEN Str_dollar_value ELSE name

----------------------------------------------------------------------------
(* Field and validation text of one member: genRustFieldCode *)

\* a pointer is the empty sequence (nil) or the one-element sequence of its target
Nil == <<>>
Ref(x) == <<x>>

\* fmt's %f of a float64 holding a whole number
FormatFloat(x) ==
    (IF x < 0 THEN <<"-">> ELSE <<>>) \o FormatInt(IF x < 0 THEN -x ELSE x) \o Chars(".000000")

\* one inline check: the test on self.<on> against the bound, and the error it returns
Check(code, fieldName, test, bound) ==
    [code |-> code, on |-> fieldName, test |-> test, bound |-> bound]

\* line 215 without the test of the field type
PatternChecks_AnyType(fieldName, fieldType, r) ==
    IF r.Pattern # Nil
    THEN <<Check(1005, fieldName, "!is_match", escapeRustString(r.Pattern[1]))>>
    ELSE <<>>

\* lines 215-221
PatternChecks(fieldName, fieldType, r) ==
    IF r.Pattern # Nil /\ fieldType = Str_String
    THEN <<Check(1005, fieldName, "!is_match", escapeRustString(r.Pattern[1]))>>
    ELSE <<>>

\* lines 190-221: the inline checks of a built-in field with restriction r
InlineChecks(fieldName, fieldType, r) ==
    (IF r.hasMinLength
     THEN <<Check(1001, fieldName, "chars().count() <", FormatInt(r.MinLength))>>
     ELSE <<>>)
    \o (IF r.hasMaxLength
        THEN <<Check(1002, fieldName, "chars().count() >", FormatInt(r.MaxLength))>>
        ELSE <<>>)
    \o (IF r.hasMin THEN <<Check(1003, fieldName, "<", FormatFloat(r.Min))>> ELSE <<>>)
    \o (IF r.hasMax THEN <<Check(1004, fieldName, ">", FormatFloat(r.Max))>> ELSE <<>>)
    \o PatternChecks(fieldName, fieldType, r)

\* lines 224-234: the delegated validation of a field of a declared type
DelegatedCheck(fieldName, plural, optional) ==
    <<[on |-> fieldName,
       test |-> "validate",
       shape |-> IF optional
                 THEN (IF plural THEN "if let Some(vec) { for item in vec }" ELSE "if let Some(value)")
                 ELSE (IF plural THEN "for item in &self" ELSE "self")]>>

\* lines 186-235
Validations(fieldName, fieldType, plural, optional, restriction) ==
    IF isRustBuiltInType(fieldType)
    THEN (IF restriction # Nil THEN InlineChecks(fieldName, fieldType, restriction[1]) ELSE <<>>)
    ELSE DelegatedCheck(fieldName, plural, optional)

Wrap(outer, fieldType) == outer \o fieldType \o <<">">>

\* the declared type with the optional wrapper applied first
WrapFieldType_OptionInside(fieldType, plural, optional) ==
    IF plural
    THEN Wrap(Str_Vec, IF optional THEN Wrap(Str_Option, fieldType) ELSE fieldType)
    ELSE (IF optional THEN Wrap(Str_Option, fieldType) ELSE fieldType)

\* lines 237-239 and 247-248: the declared type
WrapFieldType(fieldType, plural, optional) ==
    IF optional
    THEN Wrap(Str_Option, IF plural THEN Wrap(Str_Vec, fieldType) ELSE fieldType)
    ELSE (IF plural THEN Wrap(Str_Vec, fieldType) ELSE fieldType)

\* lines 184-254, fieldName and fieldType being those of lines 182-183
FieldCode(name, fieldName, fieldType, plural, optional, restriction, untagged) ==
    [content |-> <<[rename |-> IF untagged THEN Str_dollar_value ELSE genRustFieldRename(name),
                    name |-> fieldName,
                    type |-> WrapFieldType(fieldType, plural, optional),
                    skipNone |-> optional]>>,
     validations |-> Validations(fieldName, fieldType, plural, optional, restriction)]

genRustFieldCode(name, ftype, plural, optional, restriction, untagged) ==
    FieldCode(name, genRustFieldName(name), genRustFieldType(ftype),
              plural, optional, restriction, untagged)

genRustStructCode(name, fieldContent, validations, untagged) ==
    [kind |-> "struct", name |-> name, content |-> fieldContent,
     validations |-> validations, transparent |-> untagged]

genRustEnumCode(name, fieldContent) ==
    [kind |-> "enum", name |-> name, content |-> fieldContent]

----------------------------------------------------------------------------
(* The type resolver and the sorted view of a map *)

MinOf(S) == CHOOSE x \in S : \A y \in S : x <= y

\* the positions of the declarations called name
Named(name, tree) == {i \in DOMAIN tree : tree[i].kind # "nil" /\ tree[i].Name = name}

\* a simple type without enumeration facets resolves to what its base resolves to
HasBaseToFollow(d) == d.kind = "SimpleType" /\ d.Restriction.Enum = <<>>

RECURSIVE ResolveBase(_, _, _)
ResolveBase(name, tree, fuel) ==
    IF Named(name, tree) = {} \/ fuel = 0 THEN name
    ELSE IF HasBaseToFollow(tree[MinOf(Named(name, tree))])
    THEN ResolveBase(trimNSPrefix(tree[MinOf(Named(name, tree))].Base), tree, fuel - 1)
    ELSE name

getBasefromSimpleType(name, tree) == ResolveBase(name, tree, Len(tree))

LeastString(K) == CHOOSE k \in K : \A o \in K \ {k} : StringLess(k, o)

RECURSIVE SortStrings(_)
SortStrings(K) ==
    IF K = {} THEN <<>> ELSE <<LeastString(K)>> \o SortStrings(K \ {LeastString(K)})

PairsOf(m, keys) == [i \in 1..Len(keys) |-> [key |-> keys[i], value |-> m[keys[i]]]]

toSortedPairs(m) == PairsOf(m, SortStrings(DOMAIN m))

----------------------------------------------------------------------------
(* The backend handlers.  g is the generator state the handler reads and    *)
(* writes: StructAST, Field, fieldNameCount (and the log of unique names).  *)

NoCode == [content |-> <<>>, validations |-> <<>>]

\* content += conts; validation += valids, over a list of genRustFieldCode results
JoinCodes(codes) ==
    [content |-> Concat([i \in 1..Len(codes) |-> codes[i].content]),
     validations |-> Concat([i \in 1..Len(codes) |-> codes[i].validations])]

\* n is the result of genRustStructName(rawName, true)
EmitStructAs(g, rawName, fc, n, untagged) ==
    [StructAST |-> MapPut(g.StructAST, rawName, fc.content),
     Field |-> Append(g.Field, genRustStructCode(n.structName, fc.content, fc.validations, untagged)),
     fieldNameCount |-> n.fieldNameCount,
     structNameCalls |-> Append(g.structNameCalls, [raw |-> rawName, got |-> n.structName])]

\* gen.StructAST[name] = content
\* gen.Field += genRustStructCode(genRustStructName(name, true), doc, content, validation, untagged)
EmitStruct(g, rawName, fc, untagged) ==
    EmitStructAs(g, rawName, fc, genRustStructName(rawName, TRUE, g.fieldNameCount), untagged)

EmitEnumAs(g, rawName, fieldContent, n) ==
    [StructAST |-> MapPut(g.StructAST, rawName, fieldContent),
     Field |-> Append(g.Field, genRustEnumCode(n.structName, fieldContent)),
     fieldNameCount |-> n.fieldNameCount,
     structNameCalls |-> Append(g.structNameCalls, [raw |-> rawName, got |-> n.structName])]

\* lines 312-314
EmitEnum(g, rawName, fieldContent) ==
    EmitEnumAs(g, rawName, fieldContent, genRustStructName(rawName, TRUE, g.fieldNameCount))

\* gen.StructAST[name] = content
\* gen.Field += genRustStructCode(genRustFieldName(name), doc, content, validation, false)
EmitFieldNamed(g, rawName, fc) ==
    [g EXCEPT !.StructAST = MapPut(g.StructAST, rawName, fc.content),
              !.Field = Append(g.Field, genRustStructCode(genRustFieldName(rawName), fc.content,
                                                          fc.validations, FALSE))]

\* lines 308-311
EnumFieldContent(enum) ==
    [i \in 1..Len(enum) |-> [rename |-> enum[i], tag |-> Str_Code \o ToUpper(enum[i])]]

\* lines 293-297
MemberType(member, tree) ==
    IF member.value = <<>> THEN getBasefromSimpleType(member.key, tree) ELSE member.value

\* lines 291-301
UnionCodes(v, tree, pairs) ==
    JoinCodes([i \in 1..Len(pairs) |->
        genRustFieldCode(v.Name, MemberType(pairs[i], tree), FALSE, FALSE, Ref(v.Restriction), FALSE)])

\* line 307 with the base compared to the schema's name of the string type
IsEnumeration_SchemaName(v) == Len(v.Restriction.Enum) > 0 /\ v.Base = Chars("string")

\* line 307
IsEnumeration(v) == Len(v.Restriction.Enum) > 0 /\ v.Base = Str_String

RustSimpleType(g, v, tree) ==
    IF v.List /\ v.Name \notin DOMAIN g.StructAST
    THEN EmitStruct(g, v.Name,
                    genRustFieldCode(v.Name, getBasefromSimpleType(trimNSPrefix(v.Base), tree),
                                     TRUE, FALSE, Ref(v.Restriction), FALSE),
                    FALSE)
    ELSE IF v.Union /\ Cardinality(DOMAIN v.MemberTypes) > 0
    THEN (IF v.Name \notin DOMAIN g.StructAST
          THEN EmitStruct(g, v.Name, UnionCodes(v, tree, toSortedPairs(v.MemberTypes)), FALSE)
          ELSE g)
    ELSE IF IsEnumeration(v)
    THEN EmitEnum(g, v.Name, EnumFieldContent(v.Restriction.Enum))
    ELSE IF v.Name \notin DOMAIN g.StructAST
    THEN EmitStruct(g, v.Name,
                    genRustFieldCode(v.Name, getBasefromSimpleType(trimNSPrefix(v.Base), tree),
                                     FALSE, FALSE, Ref(v.Restriction), TRUE),
                    TRUE)
    ELSE g

\* lines 330-354: attribute groups, attributes, groups, elements
ComplexMemberCodes(v, tree) ==
    JoinCodes(
        [i \in 1..Len(v.AttributeGroup) |->
            genRustFieldCode(v.AttributeGroup[i].Name,
                             getBasefromSimpleType(trimNSPrefix(v.AttributeGroup[i].Ref), tree),
                             FALSE, FALSE, Nil, FALSE)]
        \o [i \in 1..Len(v.Attributes) |->
            genRustFieldCode(v.Attributes[i].Name, Str_String,
                             v.Attributes[i].Plural, v.Attributes[i].Optional, Nil, FALSE)]
        \o [i \in 1..Len(v.Groups) |->
            genRustFieldCode(v.Groups[i].Name,
                             getBasefromSimpleType(trimNSPrefix(v.Groups[i].Ref), tree),
                             v.Groups[i].Plural, FALSE, Nil, FALSE)]
        \o [i \in 1..Len(v.Elements) |->
            genRustFieldCode(v.Elements[i].Name,
                             getBasefromSimpleType(trimNSPrefix(v.Elements[i].Type), tree),
                             v.Elements[i].Plural, v.Elements[i].Optional, Nil, FALSE)])

\* line 365: the base embedded as a flattened field
FlattenCode(fieldType) ==
    [content |-> <<[flatten |-> TRUE, name |-> genRustFieldName(fieldType), type |-> fieldType]>>,
     validations |-> <<>>]

\* lines 356-366 with the built-in test of line 357 left out
BaseCode_AlwaysValue(base, fieldType) ==
    genRustFieldCode(Str_value, fieldType, FALSE, FALSE, Nil, FALSE)

\* lines 357-366: fieldType is the resolved base of line 356
BaseCode(base, fieldType) ==
    IF isRustBuiltInType(base)
    THEN genRustFieldCode(Str_value, fieldType, FALSE, FALSE, Nil, FALSE)
    ELSE FlattenCode(fieldType)

\* lines 355-367
ComplexBaseCode(v, tree) ==
    IF Len(v.Base) > 0
    THEN BaseCode(v.Base, getBasefromSimpleType(trimNSPrefix(v.Base), tree))
    ELSE NoCode

RustComplexType(g, v, tree) ==
    IF v.Name \notin DOMAIN g.StructAST
    THEN EmitStruct(g, v.Name,
                    JoinCodes(<<ComplexMemberCodes(v, tree), ComplexBaseCode(v, tree)>>), FALSE)
    ELSE g

RustGroup(g, v, tree) ==
    IF v.Name \notin DOMAIN g.StructAST
    THEN EmitStruct(g, v.Name,
            JoinCodes(
                [i \in 1..Len(v.Elements) |->
                    genRustFieldCode(v.Elements[i].Name,
                                     getBasefromSimpleType(trimNSPrefix(v.Elements[i].Type), tree),
                                     v.Elements[i].Plural, v.Elements[i].Optional,
                                     Ref(v.Elements[i].Restriction), FALSE)]
                \o [i \in 1..Len(v.Groups) |->
                    genRustFieldCode(v.Groups[i].Name,
                                     getBasefromSimpleType(trimNSPrefix(v.Groups[i].Ref), tree),
                                     v.Groups[i].Plural, FALSE, Nil, FALSE)]),
            FALSE)
    ELSE g

RustAttributeGroup(g, v, tree) ==
    IF v.Name \notin DOMAIN g.StructAST
    THEN EmitStruct(g, v.Name,
            JoinCodes(
                [i \in 1..Len(v.Attributes) |->
                    genRustFieldCode(v.Attributes[i].Name,
                                     getBasefromSimpleType(trimNSPrefix(v.Attributes[i].Type), tree),
                                     v.Attributes[i].Plural, v.Attributes[i].Optional,
                                     Ref(v.Attributes[i].Restriction), FALSE)]),
            FALSE)
    ELSE g

RustElement(g, v, tree) ==
    IF v.Name \notin DOMAIN g.StructAST
    THEN EmitFieldNamed(g, v.Name,
            genRustFieldCode(v.Name, getBasefromSimpleType(trimNSPrefix(v.Type), tree),
                             v.Plural, v.Optional, Ref(v.Restriction), FALSE))
    ELSE g

RustAttribute(g, v, tree) ==
    IF v.Name \notin DOMAIN g.StructAST
    THEN EmitFieldNamed(g, v.Name,
            genRustFieldCode(v.Name, getBasefromSimpleType(trimNSPrefix(v.Type), tree),
                             v.Plural, v.Optional, Ref(v.Restriction), FALSE))
    ELSE g

----------------------------------------------------------------------------
(* Declarations: the inputs of the generator *)

MaxDecls == 3
MaxRuns == 2

ZeroRestriction ==
    [hasMinLength |-> FALSE, MinLength |-> 0, hasMaxLength |-> FALSE, MaxLength |-> 0,
     hasMin |-> FALSE, Min |-> 0, hasMax |-> FALSE, Max |-> 0,
     Pattern |-> Nil, Enum |-> <<>>]

Str_i32 == Chars("i32")
Str_f64 == Chars("f64")

SimpleTypeOf(name, base, list, union, members, restriction) ==
    [kind |-> "SimpleType", Name |-> name, Base |-> base, List |-> list, Union |-> union,
     MemberTypes |-> members, Restriction |-> restriction]

ElementOf(name, type, plural, optional, restriction) ==
    [kind |-> "Element", Name |-> name, Type |-> type, Plural |-> plural,
     Optional |-> optional, Restriction |-> restriction]

AttributeOf(name, type, plural, optional, restriction) ==
    [kind |-> "Attribute", Name |-> name, Type |-> type, Plural |-> plural,
     Optional |-> optional, Restriction |-> restriction]

GroupOf(name, ref, plural, elements, groups) ==
    [kind |-> "Group", Name |-> name, Ref |-> ref, Plural |-> plural,
     Elements |-> elements, Groups |-> groups]

AttributeGroupOf(name, ref, attributes) ==
    [kind |-> "AttributeGroup", Name |-> name, Ref |-> ref, Attributes |-> attributes]

ComplexTypeOf(name, base, elements, attributes, groups, attributeGroups) ==
    [kind |-> "ComplexType", Name |-> name, Base |-> base, Elements |-> elements,
     Attributes |-> attributes, Groups |-> groups, AttributeGroup |-> attributeGroups]

NilDecl == [kind |-> "nil"]

LenRestriction == [ZeroRestriction EXCEPT !.hasMinLength = TRUE, !.MinLength = 3]
RangeRestriction == [ZeroRestriction EXCEPT !.hasMin = TRUE, !.Min = 5, !.hasMax = TRUE, !.Max = 10]
EnumRestriction == [ZeroRestriction EXCEPT !.Enum = <<Chars("x"), Chars("yz")>>]

\* the declarations a ProtoTree of the model is made of: simple types of every
\* path whose names normalize to one identifier (a, a_) or carry a digit (A2),
\* the list and the union carrying an enum facet too, complex types with
\* each kind of base, and the other four kinds
SimpleTypeDecls ==
    { SimpleTypeOf(Chars("a"), Str_String, FALSE, FALSE, EmptyMap, LenRestriction),
      SimpleTypeOf(Chars("a_"), Str_String, FALSE, FALSE, EmptyMap, EnumRestriction),
      SimpleTypeOf(Chars("A2"), Str_String, TRUE, FALSE, EmptyMap, EnumRestriction),
      SimpleTypeOf(Chars("u"), Str_String, FALSE, TRUE,
                   (Chars("b") :> Str_f64) @@ (Chars("a") :> <<>>), EnumRestriction) }

ComplexTypeDecls ==
    { ComplexTypeOf(Chars("c"), Str_String,
                    <<ElementOf(Chars("x"), Chars("a"), FALSE, TRUE, ZeroRestriction)>>,
                    <<AttributeOf(Chars("type"), Str_i32, FALSE, FALSE, ZeroRestriction)>>,
                    <<>>, <<>>),
      ComplexTypeOf(Chars("d"), Chars("n:c"), <<>>, <<>>,
                    <<GroupOf(Chars("g"), Chars("g"), TRUE, <<>>, <<>>)>>,
                    <<AttributeGroupOf(Chars("h"), Chars("h"), <<>>)>>),
      ComplexTypeOf(Chars("a"), <<>>,
                    <<ElementOf(Chars("y"), Str_f64, TRUE, FALSE, ZeroRestriction)>>,
                    <<AttributeOf(Chars("id"), Str_i32, FALSE, FALSE, ZeroRestriction),
                      AttributeOf(Chars("s"), Str_String, FALSE, FALSE, ZeroRestriction),
                      AttributeOf(Chars("k"), Chars("n:a"), FALSE, TRUE, ZeroRestriction)>>,
                    <<>>, <<>>) }

OtherDecls ==
    { ElementOf(Chars("a"), Str_i32, FALSE, FALSE, RangeRestriction),
      AttributeOf(Chars("A"), Str_String, FALSE, TRUE, LenRestriction),
      GroupOf(Chars("g"), <<>>, FALSE,
              <<ElementOf(Chars("x"), Chars("a"), TRUE, TRUE, ZeroRestriction)>>,
              <<GroupOf(Chars("k"), Chars("g"), FALSE, <<>>, <<>>)>>),
      AttributeGroupOf(Chars("h"), <<>>,
              <<AttributeOf(Chars("id"), Str_String, FALSE, FALSE, LenRestriction)>>),
      NilDecl }

Decls == SimpleTypeDecls \cup ComplexTypeDecls \cup OtherDecls

ProtoTrees == UNION {[1..n -> Decls] : n \in 0..MaxDecls}

----------------------------------------------------------------------------
(* GenRust *)

GenState ==
    [StructAST |-> StructAST, Field |-> Field, fieldNameCount |-> fieldNameCount,
     structNameCalls |-> structNameCalls]

Becomes(g) ==
    /\ StructAST' = g.StructAST
    /\ Field' = g.Field
    /\ fieldNameCount' = g.fieldNameCount
    /\ structNameCalls' = g.structNameCalls

AtDecl(kind) ==
    /\ pc = "loop"
    /\ idx <= Len(ProtoTree)
    /\ ProtoTree[idx].kind = kind

\* line 100: the naming counter is made anew; StructAST and Field are kept
GenRustBegin ==
    /\ pc = "idle"
    /\ Len(outputs) < MaxRuns
    /\ fieldNameCount' = EmptyMap
    /\ structNameCalls' = <<>>
    /\ idx' = 1
    /\ pc' = "loop"
    /\ UNCHANGED <<ProtoTree, StructAST, Field, outputs>>
    /\ UNCHANGED <<fcVars, optVars>>

\* lines 102-104 with the loop left at a nil entry (break for continue)
GenRustSkipNil_Break ==
    /\ AtDecl("nil")
    /\ idx' = Len(ProtoTree) + 1
    /\ UNCHANGED <<ProtoTree, StructAST, Field, fieldNameCount, pc, outputs, structNameCalls>>
    /\ UNCHANGED <<fcVars, optVars>>

\* lines 102-104
GenRustSkipNil ==
    /\ AtDecl("nil")
    /\ idx' = idx + 1
    /\ UNCHANGED <<ProtoTree, StructAST, Field, fieldNameCount, pc, outputs, structNameCalls>>
    /\ UNCHANGED <<fcVars, optVars>>

\* lines 105-106: callFuncByName(gen, "Rust" + kind, ele)
CallRustSimpleType ==
    /\ AtDecl("SimpleType")
    /\ Becomes(RustSimpleType(GenState, ProtoTree[idx], ProtoTree))
    /\ idx' = idx + 1
    /\ UNCHANGED <<ProtoTree, pc, outputs>>
    /\ UNCHANGED <<fcVars, optVars>>

CallRustComplexType ==
    /\ AtDecl("ComplexType")
    /\ Becomes(RustComplexType(GenState, ProtoTree[idx], ProtoTree))
    /\ idx' = idx + 1
    /\ UNCHANGED <<ProtoTree, pc, outputs>>
    /\ UNCHANGED <<fcVars, optVars>>

CallRustGroup ==
    /\ AtDecl("Group")
    /\ Becomes(RustGroup(GenState, ProtoTree[idx], ProtoTree))
    /\ idx' = idx + 1
    /\ UNCHANGED <<ProtoTree, pc, outputs>>
    /\ UNCHANGED <<fcVars, optVars>>

CallRustAttributeGroup ==
    /\ AtDecl("AttributeGroup")
    /\ Becomes(RustAttributeGroup(GenState, ProtoTree[idx], ProtoTree))
    /\ idx' = idx + 1
    /\ UNCHANGED <<ProtoTree, pc, outputs>>
    /\ UNCHANGED <<fcVars, optVars>>

CallRustElement ==
    /\ AtDecl("Element")
    /\ Becomes(RustElement(GenState, ProtoTree[idx], ProtoTree))
    /\ idx' = idx + 1
    /\ UNCHANGED <<ProtoTree, pc, outputs>>
    /\ UNCHANGED <<fcVars, optVars>>

CallRustAttribute ==
    /\ AtDecl("Attribute")
    /\ Becomes(RustAttribute(GenState, ProtoTree[idx], ProtoTree))
    /\ idx' = idx + 1
    /\ UNCHANGED <<ProtoTree, pc, outputs>>
    /\ UNCHANGED <<fcVars, optVars>>

\* lines 108-124: the file is created and the source written
GenRustWrite ==
    /\ pc = "loop"
    /\ idx > Len(ProtoTree)
    /\ outputs' = Append(outputs, [err |-> FALSE, source |-> Field])
    /\ pc' = "idle"
    /\ UNCHANGED <<ProtoTree, StructAST, Field, fieldNameCount, idx, structNameCalls>>
    /\ UNCHANGED <<fcVars, optVars>>

\* lines 108-111: os.Create fails
GenRustCreateFails ==
    /\ pc = "loop"
    /\ idx > Len(ProtoTree)
    /\ outputs' = Append(outputs, [err |-> TRUE])
    /\ pc' = "idle"
    /\ UNCHANGED <<ProtoTree, StructAST, Field, fieldNameCount, idx, structNameCalls>>
    /\ UNCHANGED <<fcVars, optVars>>

----------------------------------------------------------------------------
(* One call of genRustFieldCode *)

FieldNames == {Chars("x"), Chars("type"), Chars("n:max-Len")}
FieldTypes == {Str_String, Str_i32, Str_f64, Chars("foo"), <<>>}

Restrictions ==
    { [hasMinLength |-> a, MinLength |-> IF a THEN 3 ELSE 0,
       hasMaxLength |-> b, MaxLength |-> IF b THEN 12 ELSE 0,
       hasMin |-> c, Min |-> IF c THEN -5 ELSE 0,
       hasMax |-> d, Max |-> IF d THEN 10 ELSE 0,
       Pattern |-> p, Enum |-> <<>>] :
      a \in BOOLEAN, b \in BOOLEAN, c \in BOOLEAN, d \in BOOLEAN,
      p \in {Nil, Ref(<<"a", "\\", "d", "\"">>)} }

FieldCodeArgs ==
    [name : FieldNames, ftype : FieldTypes, plural : BOOLEAN, optional : BOOLEAN,
     restriction : {Nil} \cup {Ref(r) : r \in Restrictions}, untagged : BOOLEAN]

NotCalled == [called |-> FALSE]

CallGenRustFieldCode ==
    /\ fcRet = NotCalled
    /\ LET r == genRustFieldCode(fcArgs.name, fcArgs.ftype, fcArgs.plural, fcArgs.optional,
                                 fcArgs.restriction, fcArgs.untagged)
       IN  fcRet' = [called |-> TRUE, content |-> r.content, validations |-> r.validations]
    /\ UNCHANGED fcArgs
    /\ UNCHANGED <<genVars, optVars>>

----------------------------------------------------------------------------
(* The parser's context stacks and the minInclusive / maxInclusive handlers *)

MaxDepth == 2
MaxElements == 1

\* Stack: the top is the last element; Peek of an empty stack is nil
Peek(stack) == IF stack = <<>> THEN Nil ELSE Ref(stack[Len(stack)])
Push(stack, x) == Append(stack, x)
Pop(stack) == SubSeq(stack, 1, Len(stack) - 1)

\* the declarations already parsed when the handlers below run
ReaderProtoTree ==
    <<SimpleTypeOf(Chars("a"), Str_f64, FALSE, FALSE, EmptyMap, ZeroRestriction)>>

\* strconv.ParseFloat on the literals of the model: an optional sign and
\* digits give their value, anything else gives 0 and an error
RECURSIVE DigitsValue(_)
DigitsValue(s) ==
    IF s = <<>> THEN 0
    ELSE 10 * DigitsValue(SubSeq(s, 1, Len(s) - 1))
         + ((CHOOSE i \in DOMAIN Digits : Digits[i] = s[Len(s)]) - 1)

Unsigned(s) == IF s # <<>> /\ s[1] \in {"-", "+"} THEN Tail(s) ELSE s

ParseFloat(s) ==
    IF Unsigned(s) # <<>> /\ \A i \in 1..Len(Unsigned(s)) : IsDigit(Unsigned(s)[i])
    THEN [f |-> IF s[1] = "-" THEN -DigitsValue(Unsigned(s)) ELSE DigitsValue(Unsigned(s)),
          err |-> FALSE]
    ELSE [f |-> 0, err |-> TRUE]

AttrOf(local, value) == [Local |-> local, Value |-> value]

AttrLists ==
    { <<>>,
      <<AttrOf("id", Chars("m")), AttrOf("value", Chars("-3"))>>,
      <<AttrOf("value", Chars("1x"))>> }

HasValueAttr(attrs) == \E i \in DOMAIN attrs : attrs[i].Local = "value"

\* part_000 lines 20-21 with the flag set only when the literal parses
StoreMin_IfParsed(st, value) ==
    IF ParseFloat(value).err THEN st
    ELSE [st EXCEPT !.Restriction.Min = ParseFloat(value).f, !.Restriction.hasMin = TRUE]

\* part_000 lines 20-21
StoreMin(st, value) ==
    [st EXCEPT !.Restriction.Min = ParseFloat(value).f, !.Restriction.hasMin = TRUE]

\* part_001 lines 20-21
StoreMax(st, value) ==
    [st EXCEPT !.Restriction.Max = ParseFloat(value).f, !.Restriction.hasMax = TRUE]

\* part_000 lines 17-24: the range loop over ele.Attr
RECURSIVE MinInclusiveAttrs(_, _)
MinInclusiveAttrs(stack, attrs) ==
    IF attrs = <<>> THEN stack
    ELSE LET attr == Head(attrs)
             next == IF attr.Local = "value" /\ Peek(stack) # Nil
                     THEN [stack EXCEPT ![Len(stack)] = StoreMin(@, attr.Value)]
                     ELSE stack
         IN  MinInclusiveAttrs(next, Tail(attrs))

\* part_001 lines 17-24: the range loop over ele.Attr
RECURSIVE MaxInclusiveAttrs(_, _)
MaxInclusiveAttrs(stack, attrs) ==
    IF attrs = <<>> THEN stack
    ELSE LET attr == Head(attrs)
             next == IF attr.Local = "value" /\ Peek(stack) # Nil
                     THEN [stack EXCEPT ![Len(stack)] = StoreMax(@, attr.Value)]
                     ELSE stack
         IN  MaxInclusiveAttrs(next, Tail(attrs))

\* opt.GetValueType: the base name resolved to a concrete value type
GetValueType(value, tree) == getBasefromSimpleType(trimNSPrefix(value), tree)

StartEvent(kind, attrs) == [kind |-> kind, Attr |-> attrs]
EndEvent(kind) == [kind |-> kind, Attr |-> <<>>]

\* start of a simpleType: a zero-valued declaration is pushed
OnSimpleType ==
    /\ Len(optSimpleType) < MaxDepth
    /\ optSimpleType' = Push(optSimpleType,
            SimpleTypeOf(<<>>, <<>>, FALSE, FALSE, EmptyMap, ZeroRestriction))
    /\ event' = StartEvent("OnSimpleType", <<>>)
    /\ err' = FALSE
    /\ UNCHANGED <<optElement, optCurrentEle>>
    /\ UNCHANGED <<genVars, fcVars>>

\* start of a restriction: the base of the open simple type is recorded
OnRestriction ==
    /\ optSimpleType # <<>>
    /\ optSimpleType' = [optSimpleType EXCEPT ![Len(optSimpleType)].Base = Chars("n:a")]
    /\ event' = StartEvent("OnRestriction", <<AttrOf("base", Chars("n:a"))>>)
    /\ err' = FALSE
    /\ UNCHANGED <<optElement, optCurrentEle>>
    /\ UNCHANGED <<genVars, fcVars>>

\* start of an element: a zero-valued declaration is pushed
OnElement ==
    /\ Len(optElement) < MaxElements
    /\ optElement' = Push(optElement, ElementOf(<<>>, <<>>, FALSE, FALSE, ZeroRestriction))
    /\ optCurrentEle' = "element"
    /\ event' = StartEvent("OnElement", <<>>)
    /\ err' = FALSE
    /\ UNCHANGED optSimpleType
    /\ UNCHANGED <<genVars, fcVars>>

OnMinInclusive ==
    \E attrs \in AttrLists :
        /\ optSimpleType' = MinInclusiveAttrs(optSimpleType, attrs)
        /\ event' = StartEvent("OnMinInclusive", attrs)
        /\ err' = FALSE
        /\ UNCHANGED <<optElement, optCurrentEle>>
        /\ UNCHANGED <<genVars, fcVars>>

OnMaxInclusive ==
    \E attrs \in AttrLists :
        /\ optSimpleType' = MaxInclusiveAttrs(optSimpleType, attrs)
        /\ event' = StartEvent("OnMaxInclusive", attrs)
        /\ err' = FALSE
        /\ UNCHANGED <<optElement, optCurrentEle>>
        /\ UNCHANGED <<genVars, fcVars>>

\* lines 33-39 with the simple type peeked and left on its stack
EndInclusive_NoPop(kind, failed) ==
    /\ event' = EndEvent(kind)
    /\ IF Len(optSimpleType) > 0 /\ Len(optElement) > 0
       THEN /\ optSimpleType' = optSimpleType
            /\ optElement' = [optElement EXCEPT ![Len(optElement)].Type =
                    IF failed THEN <<>>
                    ELSE GetValueType(Peek(optSimpleType)[1].Base, ProtoTree)]
            /\ err' = failed
            /\ optCurrentEle' = IF failed THEN optCurrentEle ELSE ""
       ELSE /\ err' = FALSE
            /\ UNCHANGED <<optSimpleType, optElement, optCurrentEle>>

\* lines 33-39 of both end handlers; failed says whether GetValueType
\* returns an error (and then no type)
EndInclusive(kind, failed) ==
    /\ event' = EndEvent(kind)
    /\ IF Len(optSimpleType) > 0 /\ Len(optElement) > 0
       THEN /\ optSimpleType' = Pop(optSimpleType)
            /\ optElement' = [optElement EXCEPT ![Len(optElement)].Type =
                    IF failed THEN <<>>
                    ELSE GetValueType(Peek(optSimpleType)[1].Base, ProtoTree)]
            /\ err' = failed
            /\ optCurrentEle' = IF failed THEN optCurrentEle ELSE ""
       ELSE /\ err' = FALSE
            /\ UNCHANGED <<optSimpleType, optElement, optCurrentEle>>

EndMinInclusive ==
    /\ \E failed \in BOOLEAN : EndInclusive("EndMinInclusive", failed)
    /\ UNCHANGED <<genVars, fcVars>>

EndMaxInclusive ==
    /\ \E failed \in BOOLEAN : EndInclusive("EndMaxInclusive", failed)
    /\ UNCHANGED <<genVars, fcVars>>

----------------------------------------------------------------------------
(* Specifications *)

GenAtRest ==
    /\ StructAST = EmptyMap
    /\ Field = <<>>
    /\ fieldNameCount = EmptyMap
    /\ pc = "idle"
    /\ idx = 0
    /\ outputs = <<>>
    /\ structNameCalls = <<>>

FieldCodeAtRest == fcArgs = Nil /\ fcRet = NotCalled

ReaderAtRest ==
    /\ optSimpleType = <<>>
    /\ optElement = <<>>
    /\ optCurrentEle = ""
    /\ event = EndEvent("none")
    /\ err = FALSE

\* GenRust called up to MaxRuns times on one CodeGenerator
Init ==
    /\ ProtoTree \in ProtoTrees
    /\ GenAtRest
    /\ FieldCodeAtRest
    /\ ReaderAtRest

Next ==
    \/ GenRustBegin
    \/ GenRustSkipNil
    \/ CallRustSimpleType
    \/ CallRustComplexType
    \/ CallRustGroup
    \/ CallRustAttributeGroup
    \/ CallRustElement
    \/ CallRustAttribute
    \/ GenRustWrite
    \/ GenRustCreateFails

Spec == Init /\ [][Next]_vars

\* one call of genRustFieldCode on each combination of arguments
InitFieldCode ==
    /\ ProtoTree = <<>>
    /\ GenAtRest
    /\ fcArgs \in FieldCodeArgs
    /\ fcRet = NotCalled
    /\ ReaderAtRest

NextFieldCode == CallGenRustFieldCode

SpecFieldCode == InitFieldCode /\ [][NextFieldCode]_vars

\* the parser handling a stream of markup events
InitReader ==
    /\ ProtoTree = ReaderProtoTree
    /\ GenAtRest
    /\ FieldCodeAtRest
    /\ ReaderAtRest

NextReader ==
    \/ OnSimpleType
    \/ OnRestriction
    \/ OnElement
    \/ OnMinInclusive
    \/ EndMinInclusive
    \/ OnMaxInclusive
    \/ EndMaxInclusive

SpecReader == InitReader /\ [][NextReader]_vars

----------------------------------------------------------------------------
(* Properties *)

\* the step dispatches the declaration ProtoTree[idx], of one of the kinds
Dispatches(kinds) ==
    /\ pc = "loop"
    /\ idx <= Len(ProtoTree)
    /\ idx' = idx + 1
    /\ ProtoTree[idx].kind \in kinds

Last(seq) == seq[Len(seq)]

\* C1: dispatching a SimpleType or a ComplexType whose name is already a key
\* of StructAST appends nothing to gen.Field, whatever the kind of the type.
C1_NoReemission ==
    [][(Dispatches({"SimpleType", "ComplexType"}) /\ ProtoTree[idx].Name \in DOMAIN StructAST)
         => Field' = Field]_vars

\* C2: within one GenRust run the names of the structural definitions
\* appended to gen.Field are pairwise distinct.
C2_DistinctNames ==
    Len(outputs) = 0 =>
        \A i, j \in DOMAIN Field : i # j => Field[i].name # Field[j].name

\* C3: the k-th genRustStructName(name, true) call of a run whose raw name
\* normalizes to S returns S when k = 1 and S followed by the decimal k
\* when k >= 2.
C3_KthUniqueName ==
    \A j \in DOMAIN structNameCalls :
        structNameCalls[j].got =
            NormalizeStructName(structNameCalls[j].raw)
            \o (IF Cardinality({i \in 1..j : NormalizeStructName(structNameCalls[i].raw)
                                             = NormalizeStructName(structNameCalls[j].raw)}) = 1
                THEN <<>>
                ELSE FormatInt(Cardinality({i \in 1..j :
                        NormalizeStructName(structNameCalls[i].raw)
                        = NormalizeStructName(structNameCalls[j].raw)})))

\* three declarations of a run were named A, A2 and A3
C3_Witness ==
    /\ Len(structNameCalls) = 3
    /\ structNameCalls[1].got = Chars("A")
    /\ structNameCalls[2].got = Chars("A2")
    /\ structNameCalls[3].got = Chars("A3")

HasEnumFacet(v) == v.Base = Str_String /\ v.Restriction.Enum # <<>>

\* the step appended one tagged choice with one tag per literal of v
AppendsEnumOf(v) ==
    /\ Len(Field') = Len(Field) + 1
    /\ Last(Field').kind = "enum"
    /\ Len(Last(Field').content) = Len(v.Restriction.Enum)
    /\ \A i \in DOMAIN v.Restriction.Enum : Last(Field').content[i].rename = v.Restriction.Enum[i]

\* C4 as claimed: every SimpleType with Base = "String" and a non-empty enum
\* facet is emitted as a tagged choice with one tag per literal, whatever its
\* List and Union flags are.
C4_EnumFirst ==
    [][(Dispatches({"SimpleType"}) /\ HasEnumFacet(ProtoTree[idx]))
         => AppendsEnumOf(ProtoTree[idx])]_vars

\* C4 as amended: such a SimpleType that is neither a list nor a union with
\* member types is emitted as a tagged choice with one tag per literal; a
\* list not yet in StructAST is emitted as a record, the list path being
\* checked before the enumeration path.
C4_EnumAfterListAndUnion ==
    [][(Dispatches({"SimpleType"}) /\ HasEnumFacet(ProtoTree[idx]))
         => /\ (~ProtoTree[idx].List
                /\ ~(ProtoTree[idx].Union /\ DOMAIN ProtoTree[idx].MemberTypes # {}))
               => AppendsEnumOf(ProtoTree[idx])
            /\ (ProtoTree[idx].List /\ ProtoTree[idx].Name \notin DOMAIN StructAST)
               => /\ Len(Field') = Len(Field) + 1
                  /\ Last(Field').kind = "struct"]_vars

\* a tagged choice with two tags and the record of an enumerated list are in the output
C4_Witness ==
    /\ \E i \in DOMAIN Field : Field[i].kind = "enum" /\ Len(Field[i].content) = 2
    /\ \E i \in DOMAIN Field :
          /\ Field[i].kind = "struct"
          /\ Field[i].name = Chars("A2")
          /\ Field[i].content[1].type = Chars("Vec<String>")

MemberCount(v) ==
    Len(v.AttributeGroup) + Len(v.Attributes) + Len(v.Groups) + Len(v.Elements)

IsFlattened(field) == "flatten" \in DOMAIN field

\* C5: the record of a ComplexType has, after its member fields, exactly one
\* field for a non-empty Base: the field value of the base type when Base is
\* built-in, a flattened field of the base type when it is not; and no such
\* field for an empty Base.
C5_BaseField ==
    [][(Dispatches({"ComplexType"}) /\ ProtoTree[idx].Name \notin DOMAIN StructAST)
         => /\ Len(Field') = Len(Field) + 1
            /\ Len(Last(Field').content)
                 = MemberCount(ProtoTree[idx]) + (IF ProtoTree[idx].Base # <<>> THEN 1 ELSE 0)
            /\ \A i \in 1..MemberCount(ProtoTree[idx]) : ~IsFlattened(Last(Field').content[i])
            /\ ProtoTree[idx].Base # <<>> =>
                 IF ProtoTree[idx].Base \in rustBuildinType
                 THEN /\ ~IsFlattened(Last(Last(Field').content))
                      /\ Last(Last(Field').content).name = Chars("value")
                      /\ Last(Last(Field').content).type = ProtoTree[idx].Base
                 ELSE /\ IsFlattened(Last(Last(Field').content))
                      /\ Last(Last(Field').content).type
                           = getBasefromSimpleType(trimNSPrefix(ProtoTree[idx].Base), ProtoTree)]_vars

\* one record ends with a value field after two members, another with a flattened field
C5_Witness ==
    /\ \E i \in DOMAIN Field :
          /\ Field[i].kind = "struct"
          /\ Len(Field[i].content) = 3
          /\ ~IsFlattened(Last(Field[i].content))
          /\ Last(Field[i].content).name = Chars("value")
          /\ Last(Field[i].content).type = Chars("String")
    /\ \E i \in DOMAIN Field :
          /\ Field[i].kind = "struct"
          /\ Len(Field[i].content) = 3
          /\ IsFlattened(Last(Field[i].content))
          /\ Last(Field[i].content).type = Chars("c")

\* C6: any two GenRust runs over the same ProtoTree, a second run on the
\* same CodeGenerator included, write the same output.
C6_SameOutput ==
    \A a, b \in DOMAIN outputs :
        (~outputs[a].err /\ ~outputs[b].err) => outputs[a].source = outputs[b].source

BuiltInCall ==
    /\ fcRet.called
    /\ genRustFieldType(fcArgs.ftype) \in rustBuildinType
    /\ fcArgs.restriction # Nil

CodesOf(validations) == [i \in 1..Len(validations) |-> validations[i].code]

\* C7 as claimed: the checks of a built-in field with a restriction are, in
\* the order 1001..1005, exactly those whose own facet is present, whatever
\* the built-in type.
C7_OwnFacetOnly ==
    BuiltInCall =>
        CodesOf(fcRet.validations)
          = SelectSeq(<<1001, 1002, 1003, 1004, 1005>>,
                      LAMBDA c : \/ c = 1001 /\ fcArgs.restriction[1].hasMinLength
                                 \/ c = 1002 /\ fcArgs.restriction[1].hasMaxLength
                                 \/ c = 1003 /\ fcArgs.restriction[1].hasMin
                                 \/ c = 1004 /\ fcArgs.restriction[1].hasMax
                                 \/ c = 1005 /\ fcArgs.restriction[1].Pattern # Nil)

\* C7 as amended: the same, the pattern check (1005) being emitted exactly
\* when the pattern is present and the field type is String.
C7_PatternOnStringOnly ==
    BuiltInCall =>
        CodesOf(fcRet.validations)
          = SelectSeq(<<1001, 1002, 1003, 1004, 1005>>,
                      LAMBDA c : \/ c = 1001 /\ fcArgs.restriction[1].hasMinLength
                                 \/ c = 1002 /\ fcArgs.restriction[1].hasMaxLength
                                 \/ c = 1003 /\ fcArgs.restriction[1].hasMin
                                 \/ c = 1004 /\ fcArgs.restriction[1].hasMax
                                 \/ c = 1005 /\ fcArgs.restriction[1].Pattern # Nil
                                             /\ genRustFieldType(fcArgs.ftype) = Chars("String"))

\* all five checks of a String field carrying every facet
C7_Witness ==
    /\ BuiltInCall
    /\ fcArgs.ftype = Chars("String")
    /\ fcArgs.restriction[1].Pattern # Nil
    /\ CodesOf(fcRet.validations) = <<1001, 1002, 1003, 1004, 1005>>

\* C8: the inline validation of a built-in field with a restriction depends
\* on the plural and optional modifiers: the four combinations give four
\* different validations.
C8_ValidationFollowsModifiers ==
    (BuiltInCall /\ fcRet.validations # <<>>) =>
        \A plural, optional \in BOOLEAN :
            <<plural, optional>> # <<fcArgs.plural, fcArgs.optional>> =>
                genRustFieldCode(fcArgs.name, fcArgs.ftype, plural, optional,
                                 fcArgs.restriction, fcArgs.untagged).validations
                  # fcRet.validations

HasPrefix(s, prefix) == Len(s) >= Len(prefix) /\ SubSeq(s, 1, Len(prefix)) = prefix

\* C9: the declared type of a field of base type T is T, Vec<T>, Option<T>
\* or Option<Vec<T>> as plural and optional are set; never Vec<Option<T>>.
C9_DeclaredType ==
    fcRet.called =>
        /\ fcRet.content[1].type =
             (IF fcArgs.optional THEN Chars("Option<") ELSE <<>>)
             \o (IF fcArgs.plural THEN Chars("Vec<") ELSE <<>>)
             \o genRustFieldType(fcArgs.ftype)
             \o (IF fcArgs.plural THEN Chars(">") ELSE <<>>)
             \o (IF fcArgs.optional THEN Chars(">") ELSE <<>>)
        /\ ~HasPrefix(fcRet.content[1].type, Chars("Vec<Option<"))

\* an optional plural field of a declared type
C9_Witness ==
    /\ fcRet.called
    /\ fcArgs.plural
    /\ fcArgs.optional
    /\ fcRet.content[1].type = Chars("Option<Vec<Foo>>")

\* the literal of the last value attribute
ValueAttr(attrs) ==
    attrs[CHOOSE i \in DOMAIN attrs :
            attrs[i].Local = "value" /\ \A j \in DOMAIN attrs : attrs[j].Local = "value" => j <= i].Value

\* C10: OnMinInclusive / OnMaxInclusive with a value attribute, a SimpleType
\* being open, set hasMin / hasMax of the top SimpleType and return no error;
\* a literal that is no number stores the bound 0; no other facet changes
\* and no stack is pushed or popped.
C10_FacetFlagAlwaysSet ==
    [][(/\ event'.kind \in {"OnMinInclusive", "OnMaxInclusive"}
        /\ HasValueAttr(event'.Attr)
        /\ optSimpleType # <<>>)
         => /\ err' = FALSE
            /\ optElement' = optElement
            /\ Len(optSimpleType') = Len(optSimpleType)
            /\ \A i \in 1..(Len(optSimpleType) - 1) : optSimpleType'[i] = optSimpleType[i]
            /\ IF event'.kind = "OnMinInclusive"
               THEN /\ Last(optSimpleType').Restriction.hasMin
                    /\ ParseFloat(ValueAttr(event'.Attr)).err
                         => Last(optSimpleType').Restriction.Min = 0
                    /\ Last(optSimpleType') =
                         [Last(optSimpleType) EXCEPT
                            !.Restriction.hasMin = TRUE,
                            !.Restriction.Min = Last(optSimpleType').Restriction.Min]
               ELSE /\ Last(optSimpleType').Restriction.hasMax
                    /\ ParseFloat(ValueAttr(event'.Attr)).err
                         => Last(optSimpleType').Restriction.Max = 0
                    /\ Last(optSimpleType') =
                         [Last(optSimpleType) EXCEPT
                            !.Restriction.hasMax = TRUE,
                            !.Restriction.Max = Last(optSimpleType').Restriction.Max]]_vars

\* a malformed minInclusive literal left hasMin set with the bound 0, the
\* maxInclusive facet recorded before being kept
C10_Witness ==
    /\ event.kind = "OnMinInclusive"
    /\ HasValueAttr(event.Attr)
    /\ ParseFloat(ValueAttr(event.Attr)).err
    /\ optSimpleType # <<>>
    /\ Last(optSimpleType).Restriction.hasMin
    /\ Last(optSimpleType).Restriction.Min = 0
    /\ Last(optSimpleType).Restriction.hasMax
    /\ Last(optSimpleType).Restriction.Max = -3

HasFacets(r) ==
    r.hasMinLength \/ r.hasMaxLength \/ r.hasMin \/ r.hasMax \/ r.Pattern # Nil

\* the declared simple types called name that carry a facet
RestrictedSimpleTypes(name) ==
    {i \in DOMAIN ProtoTree :
        /\ ProtoTree[i].kind = "SimpleType"
        /\ ProtoTree[i].Name = name
        /\ HasFacets(ProtoTree[i].Restriction)}

\* the step's record holds a validation statement on the field of the member
ValidatesMember(member) ==
    \E j \in DOMAIN Last(Field').validations :
        Last(Field').validations[j].on = genRustFieldName(member.Name)

\* C11: the record RustComplexType emits validates every element and every
\* attribute whose type is a declared simple type carrying facets: the
\* facets of the referenced type are applied to the member and not dropped.
C11_FacetsInherited ==
    [][(Dispatches({"ComplexType"}) /\ ProtoTree[idx].Name \notin DOMAIN StructAST)
         => /\ \A i \in DOMAIN ProtoTree[idx].Elements :
                 RestrictedSimpleTypes(trimNSPrefix(ProtoTree[idx].Elements[i].Type)) # {}
                   => ValidatesMember(ProtoTree[idx].Elements[i])
            /\ \A i \in DOMAIN ProtoTree[idx].Attributes :
                 RestrictedSimpleTypes(trimNSPrefix(ProtoTree[idx].Attributes[i].Type)) # {}
                   => ValidatesMember(ProtoTree[idx].Attributes[i])]_vars

IsEndInclusive(e) == e.kind \in {"EndMinInclusive", "EndMaxInclusive"}

\* C12: EndMinInclusive / EndMaxInclusive with a SimpleType and an Element
\* open pop exactly one SimpleType and give the top Element, as its Type, the
\* resolved Base of the popped SimpleType, the Element stack keeping its
\* depth; with either stack empty they change no stack and return no error.
C12_EndPopsAndTypes ==
    [][IsEndInclusive(event')
         => IF Len(optSimpleType) > 0 /\ Len(optElement) > 0
            THEN /\ optSimpleType' = SubSeq(optSimpleType, 1, Len(optSimpleType) - 1)
                 /\ Len(optElement') = Len(optElement)
                 /\ \A i \in 1..(Len(optElement) - 1) : optElement'[i] = optElement[i]
                 /\ Last(optElement') = [Last(optElement) EXCEPT !.Type = Last(optElement').Type]
                 /\ ~err' => Last(optElement').Type
                                = GetValueType(Last(optSimpleType).Base, ProtoTree)
            ELSE /\ optSimpleType' = optSimpleType
                 /\ optElement' = optElement
                 /\ ~err']_vars

\* an end handler popped the inner of two simple types and typed the element f64
C12_Witness ==
    /\ IsEndInclusive(event)
    /\ ~err
    /\ Len(optSimpleType) = 1
    /\ Len(optElement) = 1
    /\ Last(optElement).Type = Str_f64

\* what the handler of the kind of v makes of the generator state
HandlerResult(v) ==
    CASE v.kind = "SimpleType" -> RustSimpleType(GenState, v, ProtoTree)
      [] v.kind = "ComplexType" -> RustComplexType(GenState, v, ProtoTree)
      [] v.kind = "Group" -> RustGroup(GenState, v, ProtoTree)
      [] v.kind = "AttributeGroup" -> RustAttributeGroup(GenState, v, ProtoTree)
      [] v.kind = "Element" -> RustElement(GenState, v, ProtoTree)
      [] v.kind = "Attribute" -> RustAttribute(GenState, v, ProtoTree)
      [] v.kind = "nil" -> GenState

\* C13: GenRust passes once over ProtoTree in order: the loop starts at the
\* first entry, every step handles the entry at idx with the handler of its
\* kind (a nil entry with none) and moves to the next, the source is written
\* only after the last entry; gen.Field only grows, by one definition
\* appended at the end while its declaration is dispatched, so definitions
\* stand in the order of their declarations.
C13_SinglePassInOrder ==
    [][/\ ProtoTree' = ProtoTree
       /\ (pc = "idle" /\ pc' = "loop") => idx' = 1
       /\ (pc = "loop" /\ pc' = "loop")
            => /\ idx <= Len(ProtoTree)
               /\ idx' = idx + 1
               /\ GenState' = HandlerResult(ProtoTree[idx])
       /\ (pc = "loop" /\ pc' = "idle") => idx = Len(ProtoTree) + 1
       /\ Len(Field') \in {Len(Field), Len(Field) + 1}
       /\ SubSeq(Field', 1, Len(Field)) = Field
       /\ Field' # Field => /\ pc = "loop"
                            /\ pc' = "loop"
                            /\ ProtoTree[idx].kind # "nil"]_vars

\* a completed run over a group, a nil entry and an element: G stands before a
C13_Witness ==
    /\ pc = "idle"
    /\ Len(outputs) = 1
    /\ Len(ProtoTree) = 3
    /\ ProtoTree[1].kind = "Group"
    /\ ProtoTree[2] = NilDecl
    /\ ProtoTree[3].kind = "Element"
    /\ Len(Field) = 2
    /\ Field[1].name = Chars("G")
    /\ Field[2].name = Chars("a")

\* C14: the end event of a facet just recorded on a simple type nested in an
\* open element leaves that simple type on top of its stack, so that the
\* other bound is recorded on the same simple type and both hasMin and
\* hasMax end up set on it.
C14_BothBoundsOnOneType ==
    [][(/\ event.kind \in {"OnMinInclusive", "OnMaxInclusive"}
        /\ HasValueAttr(event.Attr)
        /\ optSimpleType # <<>>
        /\ optElement # <<>>
        /\ IsEndInclusive(event'))
         => /\ optSimpleType' # <<>>
            /\ Last(optSimpleType') = Last(optSimpleType)]_vars

\* C15: the record emitted for a union SimpleType with n >= 1 member types
\* has n fields, one per member in sorted member-name order, each of the
\* member's type (resolved when the recorded type is empty), and the n field
\* identifiers are pairwise distinct.
C15_UnionFieldsDistinct ==
    [][(/\ Dispatches({"SimpleType"})
        /\ ~ProtoTree[idx].List
        /\ ProtoTree[idx].Union
        /\ DOMAIN ProtoTree[idx].MemberTypes # {}
        /\ ProtoTree[idx].Name \notin DOMAIN StructAST)
         => /\ Len(Field') = Len(Field) + 1
            /\ Len(Last(Field').content) = Cardinality(DOMAIN ProtoTree[idx].MemberTypes)
            /\ \A i \in DOMAIN Last(Field').content :
                  Last(Field').content[i].type
                    = genRustFieldType(MemberType(toSortedPairs(ProtoTree[idx].MemberTypes)[i],
                                                  ProtoTree))
            /\ \A i, j \in DOMAIN Last(Field').content :
                  i # j => Last(Field').content[i].name # Last(Field').content[j].name]_vars

\* the type a member declared with the reference ref is to be emitted with
ResolvedMemberType(ref, plural, optional) ==
    WrapFieldType(genRustFieldType(getBasefromSimpleType(trimNSPrefix(ref), ProtoTree)),
                  plural, optional)

\* C16: in the record RustComplexType emits, every member field (attribute
\* group, attribute, group, element, in this order) has the type its own
\* declared type or reference resolves to; two attributes declared with
\* different built-in types get different field types.
C16_MemberTypesResolved ==
    [][(Dispatches({"ComplexType"}) /\ ProtoTree[idx].Name \notin DOMAIN StructAST)
         => /\ \A i \in DOMAIN ProtoTree[idx].AttributeGroup :
                 Last(Field').content[i].type
                   = ResolvedMemberType(ProtoTree[idx].AttributeGroup[i].Ref, FALSE, FALSE)
            /\ \A i \in DOMAIN ProtoTree[idx].Attributes :
                 Last(Field').content[Len(ProtoTree[idx].AttributeGroup) + i].type
                   = ResolvedMemberType(ProtoTree[idx].Attributes[i].Type,
                                        ProtoTree[idx].Attributes[i].Plural,
                                        ProtoTree[idx].Attributes[i].Optional)
            /\ \A i \in DOMAIN ProtoTree[idx].Groups :
                 Last(Field').content[Len(ProtoTree[idx].AttributeGroup)
                                      + Len(ProtoTree[idx].Attributes) + i].type
                   = ResolvedMemberType(ProtoTree[idx].Groups[i].Ref,
                                        ProtoTree[idx].Groups[i].Plural, FALSE)
            /\ \A i \in DOMAIN ProtoTree[idx].Elements :
                 Last(Field').content[Len(ProtoTree[idx].AttributeGroup)
                                      + Len(ProtoTree[idx].Attributes)
                                      + Len(ProtoTree[idx].Groups) + i].type
                   = ResolvedMemberType(ProtoTree[idx].Elements[i].Type,
                                        ProtoTree[idx].Elements[i].Plural,
                                        ProtoTree[idx].Elements[i].Optional)
            /\ \A i, j \in DOMAIN ProtoTree[idx].Attributes :
                 (/\ isRustBuiltInType(ProtoTree[idx].Attributes[i].Type)
                  /\ isRustBuiltInType(ProtoTree[idx].Attributes[j].Type)
                  /\ ProtoTree[idx].Attributes[i].Type # ProtoTree[idx].Attributes[j].Type)
                 => Last(Field').content[Len(ProtoTree[idx].AttributeGroup) + i].type
                      # Last(Field').content[Len(ProtoTree[idx].AttributeGroup) + j].type]_vars

====
